---- MODULE Spec2Model ----
(***************************************************************************)
(* Model of crumbl_app.py, a Streamlit script.  Streamlit executes the     *)
(* script top to bottom once per user interaction; the state below is the  *)
(* session (widget state, the st.cache_data cache), the files on disk and  *)
(* the position and outputs of the script run in progress.                 *)
(*                                                                         *)
(* Numbers: a prediction and a historical average are floats in the code.  *)
(* They are modelled as exact rationals <<n, d>> with d > 0; the result of *)
(* a float division is an extended rational (finite, +inf, -inf or nan),   *)
(* because both operands of the division at line 172 are numpy floats.     *)
(* Rounding of IEEE doubles is not modelled.                               *)
(***************************************************************************)
EXTENDS Integers, Sequences, FiniteSets, TLC

VARIABLES
    csv,                \* crumbl_mock_data.csv on disk: [columns, data]
    cache,              \* st.cache_data entry of load_data: [set, df]
    df,                 \* module global df of the current run
    model,              \* module global model of the current run
    feature_columns,    \* module global feature_columns of the current run
    modelLoads,         \* number of times load_model loaded the artifacts
    pc,                 \* position of the script run
    trace,              \* steps the current run has executed, in order
    widgetsSet,         \* the session holds widget state (sidebar was drawn)
    flavor_selected,
    weather_selected,
    location_selected,
    is_holiday,
    social_mentions,
    button,             \* st.button returns True in this run
    input_data,         \* the frame handed to model.predict in this run
    prediction,         \* value returned by make_prediction in this run
    errors,             \* st.error messages shown in this run
    cards,              \* the prediction card (three metric cards)
    bundle,             \* the recommendation bundle shown
    charts,             \* the three charts were drawn
    debug,              \* the debug expander was drawn
    hadPredictionError  \* an earlier run of this session showed a prediction error

vars == <<csv, cache, df, model, feature_columns, modelLoads, pc, trace,
          widgetsSet, flavor_selected, weather_selected, location_selected,
          is_holiday, social_mentions, button, input_data, prediction, errors,
          cards, bundle, charts, debug, hadPredictionError>>

----------------------------------------------------------------------------
(* Bounds *)

MaxRows == 2          \* rows of the dataset in a session
LoadMaxRows == 1      \* rows of the dataset when load_data alone is explored
MaxSchemaLen == 6     \* columns of a feature schema when encoding is explored
MaxLoads == 3         \* script runs that load the model in one session

----------------------------------------------------------------------------
(* Program constants *)

BatchSize == 12
BakerThroughput == 150
SurgeThreshold == 15
SlumpThreshold == -10
SynthLow == 50
SynthHigh == 200
SliderMin == 0
SliderMax == 100

----------------------------------------------------------------------------
(* Sequences *)

Range(s) == {s[i] : i \in 1..Len(s)}

IndexOf(s, x) == CHOOSE i \in 1..Len(s) : s[i] = x /\ \A j \in 1..(i - 1) : s[j] # x

RECURSIVE SeqsUpTo(_, _)
SeqsUpTo(S, n) ==
    IF n = 0 THEN {<<>>}
    ELSE LET shorter == SeqsUpTo(S, n - 1)
         IN  shorter \cup {Append(s, x) : s \in {t \in shorter : Len(t) = n - 1}, x \in S}

RECURSIVE DistinctSeqsUpTo(_, _)
DistinctSeqsUpTo(S, n) ==
    IF n = 0 THEN {<<>>}
    ELSE LET shorter == DistinctSeqsUpTo(S, n - 1)
         IN  shorter \cup
             UNION {{Append(s, x) : x \in S \ Range(s)} : s \in {t \in shorter : Len(t) = n - 1}}

----------------------------------------------------------------------------
(* Category values and the data frames read from crumbl_mock_data.csv *)

Flavors == {"Mint", "Oreo"}
Weathers == {"Sunny"}
Locations == {"NYC"}
TargetVals == {0, 100, 200}

\* Python's string order on the category values, for sorted(...)
SortOrder == <<"Mint", "NYC", "Oreo", "Rainy", "Sunny">>

Sorted(S) == SelectSeq(SortOrder, LAMBDA x : x \in S)

ColDomain(name) ==
    CASE name = "flavor" -> Flavors
      [] name = "weather" -> Weathers
      [] name = "location" -> Locations
      [] OTHER -> TargetVals

RECURSIVE RowsOf(_)
RowsOf(header) ==
    IF header = <<>> THEN {<<>>}
    ELSE {<<x>> \o r : x \in ColDomain(Head(header)), r \in RowsOf(Tail(header))}

\* A frame is column oriented: data[i] is the column named columns[i].
Frame(header, rows) ==
    [columns |-> header,
     data |-> [i \in 1..Len(header) |-> [r \in 1..Len(rows) |-> rows[r][i]]]]

Sources(header, lo, hi) ==
    {Frame(header, rows) : rows \in {s \in SeqsUpTo(RowsOf(header), hi) : Len(s) >= lo}}

HeaderSales == <<"flavor", "sales", "weather", "location">>
HeaderUnits == <<"flavor", "weather", "location", "units_sold">>
HeaderBoth == <<"sales", "flavor", "units_sold">>
HeaderNone == <<"flavor", "weather", "location">>

\* Files a session starts from: the target column is present under either name.
SessionSources == Sources(HeaderSales, 1, 1) \cup Sources(HeaderUnits, 1, MaxRows)

\* Files load_data is explored on: every combination of target columns.
LoadSources ==
    Sources(HeaderSales, 0, LoadMaxRows) \cup Sources(HeaderUnits, 0, LoadMaxRows)
        \cup Sources(HeaderBoth, 0, LoadMaxRows) \cup Sources(HeaderNone, 0, LoadMaxRows)

NRows(d) == IF d.data = <<>> THEN 0 ELSE Len(d.data[1])

Column(d, name) == d.data[IndexOf(d.columns, name)]

Unique(col) == Range(col)

EmptyFrame == [columns |-> <<>>, data |-> <<>>]

----------------------------------------------------------------------------
(* load_data, lines 48-59 *)

\* df.rename(columns={old: new})
Rename(d, old, new) ==
    [d EXCEPT !.columns =
        [i \in 1..Len(d.columns) |-> IF d.columns[i] = old THEN new ELSE d.columns[i]]]

\* np.random.randint(low, high, size): the arrays it can return
RandIntMut(low, high, size) == [1..size -> low..high]
RandInt(low, high, size) == [1..size -> low..(high - 1)]

\* df[name] = values, name not yet a column
AddColumn(d, name, values) ==
    [columns |-> Append(d.columns, name), data |-> Append(d.data, values)]

\* the frames the try block of load_data can return for a readable file
Normalise(d) ==
    IF "sales" \in Range(d.columns) THEN {Rename(d, "sales", "units_sold")}
    ELSE IF "units_sold" \notin Range(d.columns)
         THEN {AddColumn(d, "units_sold", v) : v \in RandInt(SynthLow, SynthHigh, NRows(d))}
         ELSE {d}

NoCache == [set |-> FALSE, df |-> EmptyFrame]

\* st.stop(): the run ends here and control never reaches the next step
StopRunMut(next) == next
StopRun(next) == "stopped"

\* what one call of the cached load_data can do: return the cached frame, read
\* and normalise the file, or fail to read it
LoadDataOutcomes ==
    IF cache.set THEN {[ok |-> TRUE, df |-> cache.df]}
    ELSE {[ok |-> TRUE, df |-> d] : d \in Normalise(csv)}
            \cup {[ok |-> FALSE, df |-> EmptyFrame]}

LoadData ==
    /\ pc = "load_data"
    /\ \E out \in LoadDataOutcomes :
          IF out.ok
          THEN /\ df' = out.df
               /\ cache' = [set |-> TRUE, df |-> out.df]
               /\ errors' = errors
               /\ pc' = "load_model"
          ELSE /\ errors' = errors \cup {"Data loading failed"}
               /\ pc' = StopRun("load_model")
               /\ UNCHANGED <<df, cache>>
    /\ trace' = Append(trace, "load_data")
    /\ UNCHANGED <<csv, model, feature_columns, modelLoads, widgetsSet,
                   flavor_selected, weather_selected, location_selected, is_holiday,
                   social_mentions, button, input_data, prediction, cards, bundle,
                   charts, debug, hadPredictionError>>

----------------------------------------------------------------------------
(* load_model, lines 61-68 *)

\* Rationals <<n, d>> with d > 0
PredVals ==
    {<<-5, 1>>, <<0, 1>>, <<23, 2>>, <<12, 1>>, <<100, 1>>, <<115, 1>>,
     <<135, 1>>, <<150, 1>>, <<345, 2>>, <<180, 1>>}

\* feature_columns.pkl in a session: the full schema, or one whose names drifted
SchemaFull ==
    <<"holiday", "social_media_mentions", "weather_Sunny", "flavor_Mint",
      "flavor_Oreo", "location_NYC">>
SchemaDrift == <<"flavor_oreo", "price", "weather_Sunny">>
SessionSchemas == {SchemaFull, SchemaDrift}

\* crumbl_sales_model.pkl: an opaque regressor.  predict raises on a frame
\* whose width is not n_features, and otherwise returns value.
ModelFor(fc, v) == [n_features |-> Len(fc), value |-> v]

NoModel == [n_features |-> 0, value |-> <<0, 1>>]

\* the two artifacts on disk: a model with the schema it was trained on, or a
\* model next to the schema of another model
Artifacts ==
    {[model |-> ModelFor(fc, v), feature_columns |-> fc] :
        fc \in SessionSchemas, v \in PredVals}
      \cup {[model |-> ModelFor(SchemaFull, <<180, 1>>), feature_columns |-> SchemaDrift]}

\* what the two joblib.load calls can do: both return, or one raises
LoadModelOutcomes ==
    {[ok |-> TRUE, model |-> a.model, feature_columns |-> a.feature_columns] :
        a \in Artifacts}
      \cup {[ok |-> FALSE, model |-> NoModel, feature_columns |-> <<>>]}

LoadModel ==
    /\ pc = "load_model"
    /\ \E out \in LoadModelOutcomes :
          IF out.ok
          THEN /\ model' = out.model
               /\ feature_columns' = out.feature_columns
               /\ modelLoads' = modelLoads + 1
               /\ errors' = errors
               /\ pc' = "sidebar"
          ELSE /\ errors' = errors \cup {"Model loading failed"}
               /\ pc' = StopRun("sidebar")
               /\ UNCHANGED <<model, feature_columns, modelLoads>>
    /\ trace' = Append(trace, "load_model")
    /\ UNCHANGED <<csv, cache, df, widgetsSet, flavor_selected, weather_selected,
                   location_selected, is_holiday, social_mentions, button, input_data,
                   prediction, cards, bundle, charts, debug, hadPredictionError>>

----------------------------------------------------------------------------
(* Sidebar, lines 77-118 *)

SocialVals == {SliderMin, SliderMax}

\* options=sorted(df[name].unique())
Options(d, name) == Sorted(Unique(Column(d, name)))

\* st.selectbox: the session's value, or the first option on a fresh widget
Selectbox(options, current) ==
    IF widgetsSet /\ current \in Range(options) THEN current
    ELSE IF options = <<>> THEN "None" ELSE options[1]

Sidebar ==
    /\ pc = "sidebar"
    /\ flavor_selected' = Selectbox(Options(df, "flavor"), flavor_selected)
    /\ weather_selected' = Selectbox(Options(df, "weather"), weather_selected)
    /\ location_selected' = Selectbox(Options(df, "location"), location_selected)
    /\ is_holiday' = (widgetsSet /\ is_holiday)
    /\ social_mentions' = IF widgetsSet THEN social_mentions ELSE SliderMin
    /\ widgetsSet' = TRUE
    /\ pc' = "main"
    /\ trace' = Append(trace, "sidebar")
    /\ UNCHANGED <<csv, cache, df, model, feature_columns, modelLoads, button,
                   input_data, prediction, errors, cards, bundle, charts, debug,
                   hadPredictionError>>

----------------------------------------------------------------------------
(* make_prediction, lines 124-151 *)

\* A one-row frame: values[i] is the cell of the column named columns[i].
\* pd.DataFrame(0, index=[0], columns=cols)
Zeros(cols) == [columns |-> cols, values |-> [i \in 1..Len(cols) |-> 0]]

\* frame[name] = v: overwrites the column, or appends it when it is new
SetItem(f, name, v) ==
    IF name \in Range(f.columns)
    THEN [f EXCEPT !.values =
            [i \in 1..Len(f.columns) |-> IF f.columns[i] = name THEN v ELSE f.values[i]]]
    ELSE [columns |-> Append(f.columns, name), values |-> Append(f.values, v)]

\* if name in frame.columns: frame[name] = v
SetIfPresent(f, name, v) == IF name \in Range(f.columns) THEN SetItem(f, name, v) ELSE f

\* frame[cols]: the columns named by cols, in the order of cols
ReindexMut(f, cols) == f
Reindex(f, cols) ==
    [columns |-> cols,
     values |-> [i \in 1..Len(cols) |-> f.values[IndexOf(f.columns, cols[i])]]]

BoolToInt(b) == IF b THEN 1 ELSE 0

WeatherCol(v) == "weather_" \o v
FlavorColMut(v) == "flavour_" \o v
FlavorCol(v) == "flavor_" \o v
LocationCol(v) == "location_" \o v

\* lines 126-146: the frame handed to model.predict
Encode(cols, flavor, weather, location, holiday, mentions) ==
    LET f0 == Zeros(cols)
        f1 == SetItem(f0, "holiday", BoolToInt(holiday))
        f2 == SetItem(f1, "social_media_mentions", mentions)
        f3 == SetIfPresent(f2, WeatherCol(weather), 1)
        f4 == SetIfPresent(f3, FlavorCol(flavor), 1)
        f5 == SetIfPresent(f4, LocationCol(location), 1)
    IN  Reindex(f5, cols)

NoneValue == [kind |-> "None", value |-> <<0, 1>>]
Number(v) == [kind |-> "num", value |-> v]
Raised == [kind |-> "raise", value |-> <<0, 1>>]

\* model.predict(frame)[0]
Predict(m, f) == IF Len(f.values) # m.n_features THEN Raised ELSE Number(m.value)

\* except Exception: st.error(...); return None
OnExceptionMut(out) == out
OnException(out) == IF out.kind = "raise" THEN NoneValue ELSE out

make_prediction ==
    LET frame == Encode(feature_columns, flavor_selected, weather_selected,
                        location_selected, is_holiday, social_mentions)
        out == Predict(model, frame)
    IN  [input_data |-> [called |-> TRUE, columns |-> frame.columns,
                         values |-> frame.values],
         raised |-> out.kind = "raise",
         ret |-> OnException(out)]

NoInput == [called |-> FALSE, columns |-> <<>>, values |-> <<>>]

----------------------------------------------------------------------------
(* Float arithmetic of the recommendation block, lines 170-240 *)

Fin(n, d) == [kind |-> "fin", n |-> n, d |-> d]
PosInf == [kind |-> "+inf", n |-> 0, d |-> 1]
NegInf == [kind |-> "-inf", n |-> 0, d |-> 1]
NaN == [kind |-> "nan", n |-> 0, d |-> 1]

\* p / a on numpy floats: a zero divisor gives an infinity or nan, no exception
TrueDivMut(p, a) ==
    IF a[1] = 0 THEN NaN
    ELSE IF a[1] > 0 THEN Fin(p[1] * a[2], p[2] * a[1])
         ELSE Fin(-(p[1] * a[2]), -(p[2] * a[1]))
TrueDiv(p, a) ==
    IF a[1] = 0
    THEN (IF p[1] > 0 THEN PosInf ELSE IF p[1] < 0 THEN NegInf ELSE NaN)
    ELSE IF a[1] > 0 THEN Fin(p[1] * a[2], p[2] * a[1])
         ELSE Fin(-(p[1] * a[2]), -(p[2] * a[1]))

SubInt(x, k) == IF x.kind = "fin" THEN Fin(x.n - k * x.d, x.d) ELSE x

\* x * k for k > 0
MulInt(x, k) == IF x.kind = "fin" THEN Fin(x.n * k, x.d) ELSE x

\* x > k
GreaterThanMut(x, k) == x.kind = "+inf" \/ (x.kind = "fin" /\ x.n >= k * x.d)
GreaterThan(x, k) == x.kind = "+inf" \/ (x.kind = "fin" /\ x.n > k * x.d)

\* x < k
LessThan(x, k) == x.kind = "-inf" \/ (x.kind = "fin" /\ x.n < k * x.d)

\* if prediction:
Truthy(ret) == ret.kind = "num" /\ ret.value[1] # 0

RECURSIVE SumWhere(_, _, _, _)
SumWhere(values, keys, key, i) ==
    IF i = 0 THEN 0
    ELSE (IF keys[i] = key THEN values[i] ELSE 0) + SumWhere(values, keys, key, i - 1)

\* df.groupby('flavor')['units_sold'].mean()[flavor]: <<sum, count>>
Mean(d, flavor) ==
    LET keys == Column(d, "flavor")
    IN  <<SumWhere(Column(d, "units_sold"), keys, flavor, NRows(d)),
          Cardinality({i \in 1..NRows(d) : keys[i] = flavor})>>

\* (prediction / avg_sales - 1) * 100
ChangePct(p, a) == MulInt(SubInt(TrueDiv(p, a), 1), 100)

\* int(prediction // k)
FloorDivMut(p, k) == IF p[1] >= 0 THEN p[1] \div (p[2] * k) ELSE -((-p[1]) \div (p[2] * k))
FloorDiv(p, k) == p[1] \div (p[2] * k)

NoCards == [shown |-> FALSE, predicted |-> <<0, 1>>, change_pct |-> Fin(0, 1), batches |-> 0]
NoBundle == [kind |-> "none", batches |-> 0, bakers |-> 0]

\* lines 190-214: the three metric cards
MetricCards(p, change) ==
    [shown |-> TRUE, predicted |-> p, change_pct |-> change,
     batches |-> FloorDiv(p, BatchSize)]

\* lines 224-240: the recommendation shown
ActionBundle(p, change) ==
    IF GreaterThan(change, SurgeThreshold)
    THEN [kind |-> "Surge", batches |-> FloorDiv(p, BatchSize),
          bakers |-> FloorDiv(p, BakerThroughput)]
    ELSE IF LessThan(change, SlumpThreshold)
         THEN [kind |-> "Slump", batches |-> 0, bakers |-> 0]
         ELSE [kind |-> "Steady", batches |-> 0, bakers |-> 0]

----------------------------------------------------------------------------
(* The Generate Prediction block, lines 166-283 *)

ButtonHandler ==
    /\ pc = "main"
    /\ IF button
       THEN LET r == make_prediction
                p == r.ret.value
                change == ChangePct(p, Mean(df, flavor_selected))
            IN  /\ input_data' = r.input_data
                /\ prediction' = r.ret
                /\ errors' = IF r.raised THEN errors \cup {"Prediction error"} ELSE errors
                /\ IF Truthy(r.ret)
                   THEN /\ cards' = MetricCards(p, change)
                        /\ bundle' = ActionBundle(p, change)
                        /\ charts' = TRUE
                   ELSE UNCHANGED <<cards, bundle, charts>>
       ELSE UNCHANGED <<input_data, prediction, errors, cards, bundle, charts>>
    /\ pc' = "debug"
    /\ trace' = Append(trace, "main")
    /\ UNCHANGED <<csv, cache, df, model, feature_columns, modelLoads, widgetsSet,
                   flavor_selected, weather_selected, location_selected, is_holiday,
                   social_mentions, button, debug, hadPredictionError>>

\* lines 289-292
DebugSection ==
    /\ pc = "debug"
    /\ debug' = TRUE
    /\ pc' = "idle"
    /\ trace' = Append(trace, "debug")
    /\ UNCHANGED <<csv, cache, df, model, feature_columns, modelLoads, widgetsSet,
                   flavor_selected, weather_selected, location_selected, is_holiday,
                   social_mentions, button, input_data, prediction, errors, cards,
                   bundle, charts, hadPredictionError>>

----------------------------------------------------------------------------
(* User interactions: each one makes Streamlit run the script again *)

Widgets ==
    [flavor |-> flavor_selected, weather |-> weather_selected,
     location |-> location_selected, holiday |-> is_holiday, mentions |-> social_mentions]

WidgetStates ==
    [flavor : Range(Options(df, "flavor")), weather : Range(Options(df, "weather")),
     location : Range(Options(df, "location")), holiday : BOOLEAN, mentions : SocialVals]

Fields == {"flavor", "weather", "location", "holiday", "mentions"}

\* the widget states one interaction away: exactly one widget has a new value
WidgetChanges ==
    {w \in WidgetStates : Cardinality({k \in Fields : w[k] # Widgets[k]}) = 1}

\* a new run starts from an empty page and a fresh module namespace
StartRun ==
    /\ pc' = "load_data"
    /\ trace' = <<>>
    /\ df' = EmptyFrame
    /\ model' = NoModel
    /\ feature_columns' = <<>>
    /\ input_data' = NoInput
    /\ prediction' = NoneValue
    /\ errors' = {}
    /\ cards' = NoCards
    /\ bundle' = NoBundle
    /\ charts' = FALSE
    /\ debug' = FALSE
    /\ hadPredictionError' = (hadPredictionError \/ "Prediction error" \in errors)
    /\ UNCHANGED <<csv, cache, modelLoads>>

ChangeWidget ==
    /\ pc = "idle"
    /\ modelLoads < MaxLoads
    /\ \E w \in WidgetChanges :
          /\ flavor_selected' = w.flavor
          /\ weather_selected' = w.weather
          /\ location_selected' = w.location
          /\ is_holiday' = w.holiday
          /\ social_mentions' = w.mentions
    /\ button' = FALSE
    /\ UNCHANGED widgetsSet
    /\ StartRun

PressButton ==
    /\ pc = "idle"
    /\ modelLoads < MaxLoads
    /\ button' = TRUE
    /\ UNCHANGED <<widgetsSet, flavor_selected, weather_selected, location_selected,
                   is_holiday, social_mentions>>
    /\ StartRun

\* after st.stop() in a loader nothing is on the page: the user can only run the
\* script again, and the widgets it never drew have lost their state
Rerun ==
    /\ pc = "stopped"
    /\ modelLoads < MaxLoads
    /\ button' = FALSE
    /\ widgetsSet' = FALSE
    /\ UNCHANGED <<flavor_selected, weather_selected, location_selected, is_holiday,
                   social_mentions>>
    /\ StartRun

----------------------------------------------------------------------------
(* A session: the first run starts when the page is opened *)

FreshRun ==
    /\ df = EmptyFrame
    /\ model = NoModel
    /\ feature_columns = <<>>
    /\ trace = <<>>
    /\ input_data = NoInput
    /\ prediction = NoneValue
    /\ errors = {}
    /\ cards = NoCards
    /\ bundle = NoBundle
    /\ charts = FALSE
    /\ debug = FALSE
    /\ hadPredictionError = FALSE

NoWidgets ==
    /\ widgetsSet = FALSE
    /\ flavor_selected = "None"
    /\ weather_selected = "None"
    /\ location_selected = "None"
    /\ is_holiday = FALSE
    /\ social_mentions = SliderMin
    /\ button = FALSE

Init ==
    /\ csv \in SessionSources
    /\ cache = NoCache
    /\ modelLoads = 0
    /\ pc = "load_data"
    /\ FreshRun
    /\ NoWidgets

Next ==
    \/ LoadData
    \/ LoadModel
    \/ Sidebar
    \/ ButtonHandler
    \/ DebugSection
    \/ ChangeWidget
    \/ PressButton
    \/ Rerun

Spec == Init /\ [][Next]_vars

----------------------------------------------------------------------------
(* load_data explored on its own: the run is at the call of load_data, for  *)
(* every file of LoadSources, with the cache empty or holding the frame an  *)
(* earlier run of the session put there                                     *)

InitLoad ==
    /\ csv \in LoadSources
    /\ cache \in {NoCache} \cup {[set |-> TRUE, df |-> d] : d \in Normalise(csv)}
    /\ modelLoads = 0
    /\ pc = "load_data"
    /\ FreshRun
    /\ NoWidgets

SpecLoad == InitLoad /\ [][LoadData]_vars

----------------------------------------------------------------------------
(* make_prediction explored on its own: the run is at the Generate          *)
(* Prediction block with the button pressed, for every schema of distinct   *)
(* names of NamePool and every selection the sidebar offers                 *)

NamePool ==
    {"holiday", "social_media_mentions", "weather_Sunny", "weather_Rainy",
     "flavor_Oreo", "location_NYC", "price"}

EncFrame ==
    Frame(HeaderUnits, <<<<"Mint", "Sunny", "NYC", 100>>, <<"Oreo", "Rainy", "NYC", 200>>>>)

InitEnc ==
    /\ csv = EncFrame
    /\ cache = [set |-> TRUE, df |-> EncFrame]
    /\ df = EncFrame
    /\ feature_columns \in DistinctSeqsUpTo(NamePool, MaxSchemaLen)
    /\ model = ModelFor(feature_columns, <<180, 1>>)
    /\ modelLoads = 1
    /\ pc = "main"
    /\ trace = <<"load_data", "load_model", "sidebar">>
    /\ widgetsSet = TRUE
    /\ flavor_selected \in Range(Options(EncFrame, "flavor"))
    /\ weather_selected \in Range(Options(EncFrame, "weather"))
    /\ location_selected \in Range(Options(EncFrame, "location"))
    /\ is_holiday \in BOOLEAN
    /\ social_mentions \in SocialVals
    /\ button = TRUE
    /\ input_data = NoInput
    /\ prediction = NoneValue
    /\ errors = {}
    /\ cards = NoCards
    /\ bundle = NoBundle
    /\ charts = FALSE
    /\ debug = FALSE
    /\ hadPredictionError = FALSE

SpecEnc == InitEnc /\ [][ButtonHandler]_vars

----------------------------------------------------------------------------
(* Properties *)

\* the run has executed the Generate Prediction block with the button pressed
Pressed == button /\ pc \in {"debug", "idle"}

\* the names make_prediction derives from the selection
DerivedCategorical ==
    {"weather_" \o weather_selected, "flavor_" \o flavor_selected,
     "location_" \o location_selected}

DerivedNames == DerivedCategorical \cup {"holiday", "social_media_mentions"}

FullMatch == DerivedNames \subseteq Range(feature_columns)

\* the value the claims give the schema column called name
ExpectedCell(name) ==
    IF name = "holiday" THEN (IF is_holiday THEN 1 ELSE 0)
    ELSE IF name = "social_media_mentions" THEN social_mentions
    ELSE IF name \in DerivedCategorical THEN 1
    ELSE 0

\* C1: when every derived column name is in the schema, the frame handed to
\* model.predict has the schema's columns in schema order, 1 at the three
\* selected categorical columns, int(is_holiday) at holiday, social_mentions
\* at social_media_mentions and 0 at every other column.
C1_FullMatchEncoding ==
    (Pressed /\ FullMatch) =>
        /\ input_data.called
        /\ input_data.columns = feature_columns
        /\ Len(input_data.values) = Len(feature_columns)
        /\ \A i \in 1..Len(feature_columns) :
              input_data.values[i] = ExpectedCell(feature_columns[i])
        /\ Cardinality({i \in 1..Len(feature_columns) :
                            /\ feature_columns[i] \in DerivedCategorical
                            /\ input_data.values[i] = 1}) = 3

C1_Witness ==
    /\ Pressed
    /\ FullMatch
    /\ is_holiday
    /\ social_mentions = SliderMax
    /\ "weather_Sunny" \in Range(feature_columns)
    /\ weather_selected = "Rainy"
    /\ feature_columns[1] # "holiday"

\* C2: when a derived column name is absent from the schema, encoding does not
\* raise, the frame handed to model.predict holds exactly the schema's columns
\* in schema order (none is added for the absent name), the columns that are
\* present hold their values and every column no derived name matches holds 0.
C2_MissingNameEncoding ==
    (Pressed /\ ~FullMatch) =>
        /\ input_data.called
        /\ "Prediction error" \notin errors
        /\ input_data.columns = feature_columns
        /\ \A name \in DerivedNames \ Range(feature_columns) :
              name \notin Range(input_data.columns)
        /\ \A i \in 1..Len(input_data.values) :
              IF input_data.columns[i] \in DerivedNames
              THEN input_data.values[i] = ExpectedCell(input_data.columns[i])
              ELSE input_data.values[i] = 0

C2_Witness ==
    /\ Pressed
    /\ input_data.called
    /\ "holiday" \notin Range(feature_columns)
    /\ is_holiday
    /\ "flavor_" \o flavor_selected \notin Range(feature_columns)
    /\ "weather_" \o weather_selected \in Range(feature_columns)
    /\ Len(feature_columns) >= 3

\* the historical average of the selected flavor, <<sum, count>>
Avg == Mean(df, flavor_selected)

\* change_pct > k and change_pct < k for a prediction p and a nonzero average
\* a, by cross-multiplication: (p / a - 1) * 100 > k  iff  p / a > (100 + k) / 100
PctAbove(p, a, k) ==
    IF a[1] > 0 THEN 100 * p[1] * a[2] > (100 + k) * p[2] * a[1]
    ELSE 100 * p[1] * a[2] < (100 + k) * p[2] * a[1]

PctBelow(p, a, k) ==
    IF a[1] > 0 THEN 100 * p[1] * a[2] < (100 + k) * p[2] * a[1]
    ELSE 100 * p[1] * a[2] > (100 + k) * p[2] * a[1]

IsRatio(p, a, x, y) == p[1] * a[2] * y = x * p[2] * a[1]

\* C3: for a rendered prediction p and a nonzero average a exactly one bundle
\* is shown: Surge iff change_pct > 15, Slump iff change_pct < -10, Steady
\* otherwise; change_pct exactly 15 or exactly -10 gives Steady; (180, 150)
\* gives Surge, (100, 150) Slump and (150, 150) Steady.
C3_BundleSelection ==
    (cards.shown /\ Avg[1] # 0) =>
        LET p == prediction.value
        IN  /\ bundle.kind \in {"Surge", "Slump", "Steady"}
            /\ (bundle.kind = "Surge") <=> PctAbove(p, Avg, 15)
            /\ (bundle.kind = "Slump") <=> PctBelow(p, Avg, -10)
            /\ IsRatio(p, Avg, 115, 100) => bundle.kind = "Steady"
            /\ IsRatio(p, Avg, 90, 100) => bundle.kind = "Steady"
            /\ IsRatio(p, Avg, 180, 150) => bundle.kind = "Surge"
            /\ IsRatio(p, Avg, 100, 150) => bundle.kind = "Slump"
            /\ IsRatio(p, Avg, 150, 150) => bundle.kind = "Steady"

C3_Witness ==
    /\ cards.shown
    /\ Avg[1] # 0
    /\ IsRatio(prediction.value, Avg, 115, 100)
    /\ prediction.value = <<345, 2>>
    /\ bundle.kind = "Steady"

\* the call of model.predict in this run raised
PredictRaised == input_data.called /\ Len(input_data.values) # model.n_features

\* C4: when encoding or model.predict raises, make_prediction catches it and
\* returns None, an error is shown, no metric card, bundle or chart is drawn,
\* and the run goes on to the debug section and ends normally.
C4_PredictionErrorHandled ==
    /\ (Pressed /\ PredictRaised) => "Prediction error" \in errors
    /\ "Prediction error" \in errors =>
          /\ Pressed
          /\ prediction = NoneValue
          /\ ~cards.shown
          /\ bundle = NoBundle
          /\ ~charts
          /\ trace \in {<<"load_data", "load_model", "sidebar", "main">>,
                        <<"load_data", "load_model", "sidebar", "main", "debug">>}
          /\ (pc = "idle" => debug)

\* a press that failed, and a later press of the same session that rendered
C4_Witness ==
    /\ hadPredictionError
    /\ pc = "idle"
    /\ debug
    /\ button
    /\ cards.shown

LoadErrors == {"Data loading failed", "Model loading failed"}

\* C6: when reading the dataset or loading an artifact fails, the error is
\* shown and the run halts there: no later step of the script (the model load
\* after a data failure, the sidebar, make_prediction, rendering, the debug
\* section) is executed in that run, and the failed load is not tried again.
C6_LoadErrorHalts ==
    /\ (errors \cap LoadErrors # {}) =>
          /\ pc = "stopped"
          /\ ~input_data.called
          /\ ~cards.shown
          /\ bundle = NoBundle
          /\ ~charts
          /\ ~debug
    /\ "Data loading failed" \in errors =>
          (trace = <<"load_data">> /\ model = NoModel /\ feature_columns = <<>>)
    /\ "Model loading failed" \in errors =>
          (trace = <<"load_data", "load_model">> /\ model = NoModel)
    /\ pc = "stopped" => errors \cap LoadErrors # {}

C6_Witness ==
    /\ pc = "stopped"
    /\ "Model loading failed" \in errors
    /\ modelLoads >= 1
    /\ widgetsSet

\* C7: the frame load_data returns has a units_sold column: a sales column is
\* renamed, else an existing units_sold column is kept, else one is
\* synthesized with every value an integer v, 50 <= v < 200; nothing else is
\* added, removed or changed.
C7_UnitsSoldAfterLoad ==
    (pc = "load_model") =>
        /\ "units_sold" \in Range(df.columns)
        /\ IF "sales" \in Range(csv.columns)
           THEN /\ Len(df.columns) = Len(csv.columns)
                /\ \A i \in 1..Len(csv.columns) :
                      df.columns[i] =
                        IF csv.columns[i] = "sales" THEN "units_sold" ELSE csv.columns[i]
                /\ df.data = csv.data
           ELSE IF "units_sold" \in Range(csv.columns)
                THEN df = csv
                ELSE /\ df.columns = Append(csv.columns, "units_sold")
                     /\ SubSeq(df.data, 1, Len(csv.data)) = csv.data
                     /\ Len(df.data) = Len(csv.data) + 1
                     /\ Len(df.data[Len(df.data)]) = NRows(csv)
                     /\ \A r \in 1..NRows(csv) :
                           LET v == df.data[Len(df.data)][r]
                           IN  v \in Int /\ 50 <= v /\ v < 200

C7_Witness ==
    /\ pc = "load_model"
    /\ ~cache.set \/ cache.df = df
    /\ "sales" \notin Range(csv.columns)
    /\ "units_sold" \notin Range(csv.columns)
    /\ NRows(df) >= 1
    /\ Column(df, "units_sold")[1] = 199

\* C8 as stated: over a session the model and schema artifacts are loaded
\* exactly once.
C8_LoadedOnce == modelLoads <= 1

\* C9 as stated, its last example: any rendered prediction below 12 gives 0
\* batches (taken where the average is nonzero, so that it does not rest on
\* what a zero average does).
C9_Original ==
    (cards.shown /\ Avg[1] # 0 /\ prediction.value[1] < 12 * prediction.value[2]) =>
        cards.batches = 0

\* C9 as amended: the batch count of the metric card is floor(p / 12) and is
\* the batch count of the Surge bundle, whose baker count is floor(p / 150);
\* p = 180 gives 15 batches and 1 baker, and any p with 0 <= p < 12 gives 0
\* batches.
C9_DerivedQuantities ==
    cards.shown =>
        LET n == prediction.value[1]
            d == prediction.value[2]
            b == cards.batches
        IN  /\ cards.predicted = prediction.value
            /\ 12 * b * d <= n
            /\ n < 12 * (b + 1) * d
            /\ bundle.kind = "Surge" =>
                  /\ bundle.batches = b
                  /\ 150 * bundle.bakers * d <= n
                  /\ n < 150 * (bundle.bakers + 1) * d
            /\ prediction.value = <<180, 1>> =>
                  (b = 15 /\ (bundle.kind = "Surge" => bundle.bakers = 1))
            /\ (0 <= n /\ n < 12 * d) => b = 0

C9_Witness ==
    /\ cards.shown
    /\ prediction.value = <<180, 1>>
    /\ bundle.kind = "Surge"
    /\ bundle.batches = 15
    /\ bundle.bakers = 1

\* C10 as stated: whenever model.predict returns a number without raising
\* (0 included) and the average is nonzero, the metric cards and exactly one
\* bundle are rendered for that press.
C10_RenderedUnlessError ==
    (Pressed /\ prediction.kind = "num" /\ Avg[1] # 0) =>
        (cards.shown /\ bundle.kind \in {"Surge", "Slump", "Steady"})

====
